---- MODULE Spec2Model ----
(***************************************************************************)
(* husobee/dampener: request throttling.                                   *)
(*                                                                         *)
(* The model follows src/unnamed/part_000 (package dampener): the          *)
(* in-memory event store (MemoryStorage), the throttle rule                *)
(* (dampenerThrottle) and the throttler chain (dampenerPolicy).            *)
(*                                                                         *)
(* Every goroutine is a process with a program counter.  time.Now() is a   *)
(* read of the monotonic clock `now`, which the environment may advance    *)
(* between any two steps.  The store's RWMutex is modelled explicitly, and *)
(* the statement s.s[k] = append(s.s[k], t) is a read followed by a write, *)
(* so that mutual exclusion is what makes it atomic.                       *)
(***************************************************************************)
EXTENDS Integers, Sequences, FiniteSets, TLC

\* ---------------------------------------------------------------- bounds
\* number of goroutines calling into the package
NumProcs == 2
\* the clock runs over 0..MaxTime
MaxTime == 2
\* windows (time.Duration) are drawn from 0..MaxDuration
MaxDuration == 2
\* events ever appended to the store, over all keys
MaxEvents == 3
\* thresholds (GetMaxCount) of a single-rule chain are drawn from 0..MaxCount
MaxCount == 1
\* requests served by the chain in one behaviour
MaxRequests == 4
\* rules in a chain
MaxRules == 2

Procs == 1..NumProcs
Times == 0..MaxTime
Durations == 1..MaxDuration
Keys == {"ip", "user"}
\* *http.Request, as far as a classify predicate can tell requests apart
Requests == {"GET", "POST"}

VARIABLES
    now,        \* the clock read by time.Now()
    s,          \* MemoryStorage.s : map[string][]time.Time
    m,          \* MemoryStorage.m : the RWMutex, writer flag and reader count
    throttles,  \* dampenerPolicy.throttles : the options of each rule, in order
    options,    \* dampenerPolicy.options : StatusCode and Message
    proc,       \* per goroutine: program counter, arguments, locals, results
    appends,    \* history: per key, the AppendEvent calls that returned nil
    cleans,     \* history: per key, whether a Clean call has taken the lock
    hist        \* history: the outcome of each request ServeHTTP finished, in order

vars == <<now, s, m, throttles, options, proc, appends, cleans, hist>>

\* ------------------------------------------------------------ Go helpers
\* s.s[k] of a Go map: the zero value (a nil slice) when k is absent
Log(k) == IF k \in DOMAIN s THEN s[k] ELSE <<>>

\* the map s.s with s.s[k] = v
MapSet(k, v) == [x \in (DOMAIN s) \cup {k} |-> IF x = k THEN v ELSE s[x]]

\* Go's sl[lo:] for 0 <= lo <= len(sl)
SliceFrom(sl, lo) == SubSeq(sl, lo + 1, Len(sl))

\* time.Time.After and time.Time.Before on instants
After(v, u) == v > u
Before(v, u) == v < u

\* the frame of a goroutine that is not inside any call
Idle ==
    [top |-> "none", pc |-> "idle", k |-> "", arg |-> 0, t0 |-> 0,
     rng |-> <<>>, i |-> 0, counter |-> 0, err |-> "nil",
     req |-> "", ti |-> 0, yes |-> FALSE, trace |-> <<>>,
     out |-> "", status |-> 0, body |-> <<>>]

\* frame f with the arguments and locals of a finished store call dropped
Popped(f) == [f EXCEPT !.k = "", !.arg = 0, !.rng = <<>>, !.i = 0]

\* proc' with goroutine p's frame replaced
Goto(p, frame) == proc' = [proc EXCEPT ![p] = frame]

\* events stored plus the appends the calls in progress may still write
Load ==
    LET RECURSIVE Sum(_)
        Sum(K) == IF K = {} THEN 0
                  ELSE LET x == CHOOSE y \in K : TRUE
                       IN Len(s[x]) + Sum(K \ {x})
        Pending(p) ==
            LET f == proc[p]
                unwritten == IF f.pc = "append_ret" THEN 0 ELSE 1
            IN CASE f.pc \in {"idle", "done"} -> 0
                 [] f.top = "ServeHTTP" -> Len(throttles) - f.ti + unwritten
                 [] f.top \in {"AppendEvent", "Throttle.AppendEvent"} -> unwritten
                 [] OTHER -> 0
        RECURSIVE SumP(_)
        SumP(P) == IF P = {} THEN 0
                   ELSE LET x == CHOOSE y \in P : TRUE
                        IN Pending(x) + SumP(P \ {x})
    IN Sum(DOMAIN s) + SumP(Procs)

\* -------------------------------------------------------------- RWMutex
\* sync.RWMutex.Lock: blocks while a writer or any reader holds the mutex
CanLock == ~m.w /\ m.r = 0
\* sync.RWMutex.RLock: blocks while a writer holds the mutex
CanRLock == ~m.w

\* ------------------------------------------------------------- the clock
\* the monotonic clock advances
Tick ==
    /\ now < MaxTime
    /\ now' = now + 1
    /\ UNCHANGED <<s, m, throttles, options, proc, appends, cleans, hist>>

\* ------------------------------------------- MemoryStorage.AppendEvent
\* a caller invokes Storage.AppendEvent(k, t) on the memory store
Call_AppendEvent(p, k, t) ==
    /\ proc[p].pc \in {"idle", "done"}
    /\ Load < MaxEvents
    /\ Goto(p, [Idle EXCEPT !.top = "AppendEvent", !.pc = "append_lock",
                            !.k = k, !.arg = t])
    /\ UNCHANGED <<now, s, m, throttles, options, appends, cleans, hist>>

\* mutant: the append takes no exclusive lock (it proceeds whoever holds it)
Mut_AppendEvent_Lock(p) ==
    /\ proc[p].pc = "append_lock"
    /\ m' = [m EXCEPT !.w = TRUE]
    /\ Goto(p, [proc[p] EXCEPT !.pc = "append_init"])
    /\ UNCHANGED <<now, s, throttles, options, appends, cleans, hist>>

\* s.m.Lock()
AppendEvent_Lock(p) ==
    /\ proc[p].pc = "append_lock"
    /\ CanLock
    /\ m' = [m EXCEPT !.w = TRUE]
    /\ Goto(p, [proc[p] EXCEPT !.pc = "append_init"])
    /\ UNCHANGED <<now, s, throttles, options, appends, cleans, hist>>

\* mutant: a missing key is initialised by replacing the whole map
Mut_AppendEvent_Init(p) ==
    /\ proc[p].pc = "append_init"
    /\ s' = IF proc[p].k \in DOMAIN s THEN s ELSE [x \in {proc[p].k} |-> <<>>]
    /\ Goto(p, [proc[p] EXCEPT !.pc = "append_read"])
    /\ UNCHANGED <<now, m, throttles, options, appends, cleans, hist>>

\* if _, ok := s.s[k]; !ok { s.s[k] = []time.Time{} }
AppendEvent_Init(p) ==
    /\ proc[p].pc = "append_init"
    /\ s' = IF proc[p].k \in DOMAIN s THEN s ELSE MapSet(proc[p].k, <<>>)
    /\ Goto(p, [proc[p] EXCEPT !.pc = "append_read"])
    /\ UNCHANGED <<now, m, throttles, options, appends, cleans, hist>>

\* the read of s.s[k] in s.s[k] = append(s.s[k], t)
AppendEvent_Read(p) ==
    /\ proc[p].pc = "append_read"
    /\ Goto(p, [proc[p] EXCEPT !.pc = "append_write", !.rng = Log(proc[p].k)])
    /\ UNCHANGED <<now, s, m, throttles, options, appends, cleans, hist>>

\* the write of s.s[k] in s.s[k] = append(s.s[k], t)
AppendEvent_Write(p) ==
    /\ proc[p].pc = "append_write"
    /\ s' = MapSet(proc[p].k, Append(proc[p].rng, proc[p].arg))
    /\ Goto(p, [proc[p] EXCEPT !.pc = "append_ret", !.rng = <<>>])
    /\ UNCHANGED <<now, m, throttles, options, appends, cleans, hist>>

\* return nil, running the deferred s.m.Unlock(); the callers
\* (dampenerThrottle.AppendEvent, and ServeHTTP after it) drop the error
AppendEvent_Return(p) ==
    /\ proc[p].pc = "append_ret"
    /\ m' = [m EXCEPT !.w = FALSE]
    /\ appends' = [appends EXCEPT ![proc[p].k] = @ + 1]
    /\ LET f == proc[p]
       IN IF f.top = "ServeHTTP"
          THEN Goto(p, [Popped(f) EXCEPT !.pc = "serve_range", !.ti = @ + 1])
          ELSE Goto(p, [Idle EXCEPT !.top = f.top, !.pc = "done", !.err = "nil"])
    /\ UNCHANGED <<now, s, throttles, options, cleans, hist>>

\* ---------------------------------------- MemoryStorage.EventsInDuration
\* a caller invokes Storage.EventsInDuration(k, d) on the memory store
Call_EventsInDuration(p, k, d) ==
    /\ proc[p].pc \in {"idle", "done"}
    /\ Goto(p, [Idle EXCEPT !.top = "EventsInDuration", !.pc = "count_rlock",
                            !.k = k, !.arg = d, !.t0 = now])
    /\ UNCHANGED <<now, s, m, throttles, options, appends, cleans, hist>>

\* s.m.RLock(); var counter int64 = 0
EventsInDuration_RLock(p) ==
    /\ proc[p].pc = "count_rlock"
    /\ CanRLock
    /\ m' = [m EXCEPT !.r = @ + 1]
    /\ Goto(p, [proc[p] EXCEPT !.pc = "count_range", !.counter = 0])
    /\ UNCHANGED <<now, s, throttles, options, appends, cleans, hist>>

\* mutant: the range runs over a stale copy of the log that lacks its newest
\* entry
Mut_EventsInDuration_Range(p) ==
    /\ proc[p].pc = "count_range"
    /\ LET L == Log(proc[p].k)
       IN Goto(p, [proc[p] EXCEPT !.pc = "count_iter",
                                  !.rng = SubSeq(L, 1, Len(L) - 1), !.i = 0])
    /\ UNCHANGED <<now, s, m, throttles, options, appends, cleans, hist>>

\* for _, v := range s.s[k]: the range expression is evaluated once
EventsInDuration_Range(p) ==
    /\ proc[p].pc = "count_range"
    /\ Goto(p, [proc[p] EXCEPT !.pc = "count_iter", !.rng = Log(proc[p].k), !.i = 0])
    /\ UNCHANGED <<now, s, m, throttles, options, appends, cleans, hist>>

\* mutant: every entry counts, whatever its age
Mut_EventsInDuration_Iter(p) ==
    /\ proc[p].pc = "count_iter"
    /\ LET f == proc[p]
       IN IF f.i >= Len(f.rng)
          THEN Goto(p, [f EXCEPT !.pc = "count_ret", !.err = "nil"])
          ELSE Goto(p, [f EXCEPT !.i = @ + 1, !.counter = @ + 1])
    /\ UNCHANGED <<now, s, m, throttles, options, appends, cleans, hist>>

\* one iteration: if v.After(time.Now().Add(-1 * d)) { counter++ }
\* time.Now() is read anew in every iteration
EventsInDuration_Iter(p) ==
    /\ proc[p].pc = "count_iter"
    /\ LET f == proc[p]
       IN IF f.i >= Len(f.rng)
          THEN Goto(p, [f EXCEPT !.pc = "count_ret", !.err = "nil"])
          ELSE LET v == f.rng[f.i + 1]
               IN Goto(p, [f EXCEPT !.i = @ + 1,
                                    !.counter = IF After(v, now - f.arg)
                                                THEN @ + 1 ELSE @])
    /\ UNCHANGED <<now, s, m, throttles, options, appends, cleans, hist>>

\* return counter, nil, running the deferred s.m.RUnlock()
EventsInDuration_Return(p) ==
    /\ proc[p].pc = "count_ret"
    /\ m' = [m EXCEPT !.r = @ - 1]
    /\ LET f == proc[p]
       IN IF f.top = "EventsInDuration"
          THEN Goto(p, [Idle EXCEPT !.top = f.top, !.pc = "done",
                                    !.counter = f.counter, !.err = f.err])
          ELSE Goto(p, [Popped(f) EXCEPT !.pc = "should_ret"])
    /\ UNCHANGED <<now, s, throttles, options, appends, cleans, hist>>

\* ------------------------------------------------- MemoryStorage.Clean
\* a caller invokes Storage.Clean(k, to) on the memory store
Call_Clean(p, k, to) ==
    /\ proc[p].pc \in {"idle", "done"}
    /\ Goto(p, [Idle EXCEPT !.top = "Clean", !.pc = "clean_lock",
                            !.k = k, !.arg = to])
    /\ UNCHANGED <<now, s, m, throttles, options, appends, cleans, hist>>

\* s.m.Lock()
Clean_Lock(p) ==
    /\ proc[p].pc = "clean_lock"
    /\ CanLock
    /\ m' = [m EXCEPT !.w = TRUE]
    /\ cleans' = [cleans EXCEPT ![proc[p].k] = TRUE]
    /\ Goto(p, [proc[p] EXCEPT !.pc = "clean_range"])
    /\ UNCHANGED <<now, s, throttles, options, appends, hist>>

\* for i, v := range s.s[k]: the range expression is evaluated once
Clean_Range(p) ==
    /\ proc[p].pc = "clean_range"
    /\ Goto(p, [proc[p] EXCEPT !.pc = "clean_iter", !.rng = Log(proc[p].k), !.i = 0])
    /\ UNCHANGED <<now, s, m, throttles, options, appends, cleans, hist>>

\* one iteration:
\*   if v.Before(to) { continue }; s.s[k] = s.s[k][i-1:]; return nil
\* and `return nil` once the range is exhausted.  A slice expression whose
\* low bound is negative (i = 0) or beyond the length is a run-time panic.
Clean_Iter(p) ==
    /\ proc[p].pc = "clean_iter"
    /\ LET f == proc[p]
       IN IF f.i >= Len(f.rng)
          THEN Goto(p, [f EXCEPT !.pc = "clean_ret", !.err = "nil"]) /\ s' = s
          ELSE LET v == f.rng[f.i + 1]
               IN IF Before(v, f.arg)
                  THEN Goto(p, [f EXCEPT !.i = @ + 1]) /\ s' = s
                  ELSE IF f.i - 1 < 0 \/ f.i - 1 > Len(Log(f.k))
                       THEN Goto(p, [f EXCEPT !.pc = "clean_ret", !.err = "panic"])
                            /\ s' = s
                       ELSE Goto(p, [f EXCEPT !.pc = "clean_ret", !.err = "nil"])
                            /\ s' = MapSet(f.k, SliceFrom(Log(f.k), f.i - 1))
    /\ UNCHANGED <<now, m, throttles, options, appends, cleans, hist>>

\* the process after a panic no goroutine recovered: the Go runtime ends it,
\* and every goroutine with it
Exited == [p \in Procs |-> [Idle EXCEPT !.pc = "exited"]]

\* the deferred s.m.Unlock(), run on return and on panic alike.  A direct
\* caller gets the result.  The cleanup goroutine of a rule drops the error
\* and sleeps again; it recovers no panic, so a panic there ends the process.
Clean_Return(p) ==
    /\ proc[p].pc = "clean_ret"
    /\ m' = [m EXCEPT !.w = FALSE]
    /\ LET f == proc[p]
       IN IF f.top = "cleaner"
          THEN IF f.err = "panic"
               THEN proc' = Exited
               ELSE Goto(p, [Idle EXCEPT !.top = "cleaner", !.pc = "sleep",
                                         !.ti = f.ti, !.t0 = now])
          ELSE Goto(p, [Idle EXCEPT !.top = f.top, !.pc = "done", !.err = f.err])
    /\ UNCHANGED <<now, s, throttles, options, appends, cleans, hist>>

\* ----------------------------------------------------------- MockStorage
\* the results a MockEventsInDuration function may hand back
MockCounts == 0..MaxCount
MockErrors == {"nil", "outage"}

\* MockStorage.EventsInDuration: the result of the MockEventsInDuration
\* function when one is set, whatever it is, and (0, nil) otherwise
MockStorage_EventsInDuration(p) ==
    /\ proc[p].pc = "mock_count"
    /\ \E c \in MockCounts, e \in MockErrors :
         Goto(p, [Popped(proc[p]) EXCEPT
                     !.pc = "should_ret", !.counter = c, !.err = e,
                     !.trace = IF e = "nil" THEN @
                               ELSE Append(@, <<"error", proc[p].ti>>)])
    /\ UNCHANGED <<now, s, m, throttles, options, appends, cleans, hist>>

\* MockStorage.AppendEvent with no MockAppendEvent function: return nil
MockStorage_AppendEvent(p) ==
    /\ proc[p].pc = "mock_append"
    /\ LET f == proc[p]
       IN IF f.top = "ServeHTTP"
          THEN Goto(p, [Popped(f) EXCEPT !.pc = "serve_range", !.ti = @ + 1])
          ELSE Goto(p, [Idle EXCEPT !.top = f.top, !.pc = "done", !.err = "nil"])
    /\ UNCHANGED <<now, s, m, throttles, options, appends, cleans, hist>>

\* ------------------------------------------------------ dampenerThrottle
\* time.Sleep(1 * time.Minute) of the cleanup goroutine, in clock units
SleepInterval == 1

\* the cleanup goroutine newDampenerThrottle starts for rule n, asleep
Cleaner(n) == [Idle EXCEPT !.top = "cleaner", !.pc = "sleep", !.ti = n, !.t0 = 0]

\* the cleanup goroutine wakes once the interval has passed and calls
\* GetStorage().Clean(GetPrefix(), time.Now()); the arguments, time.Now()
\* among them, are evaluated before the call
Cleaner_Wake(p) ==
    /\ proc[p].top = "cleaner" /\ proc[p].pc = "sleep"
    /\ now >= proc[p].t0 + SleepInterval
    /\ Goto(p, [proc[p] EXCEPT !.pc = "clean_lock",
                               !.k = throttles[proc[p].ti].prefix, !.arg = now])
    /\ UNCHANGED <<now, s, m, throttles, options, appends, cleans, hist>>

\* a caller invokes ShouldThrottle(r) on rule n of the chain
Call_ShouldThrottle(p, n, r) ==
    /\ proc[p].pc \in {"idle", "done"}
    /\ n \in 1..Len(throttles)
    /\ Goto(p, [Idle EXCEPT !.top = "ShouldThrottle", !.pc = "should_match",
                            !.req = r, !.ti = n, !.t0 = now])
    /\ UNCHANGED <<now, s, m, throttles, options, appends, cleans, hist>>

\* mutant: the rule queries the store without consulting MatchCriteria
Mut_ShouldThrottle_Match(p) ==
    /\ proc[p].pc = "should_match"
    /\ LET f == proc[p]
           o == throttles[f.ti]
       IN Goto(p, [f EXCEPT !.pc = "count_rlock", !.k = o.prefix,
                            !.arg = o.duration,
                            !.trace = Append(@, <<"EventsInDuration", f.ti>>)])
    /\ UNCHANGED <<now, s, m, throttles, options, appends, cleans, hist>>

\* if d.GetOptions().MatchCriteria()(r) { count, err := ...EventsInDuration(
\*     GetPrefix(), GetDuration()) ... }; return false, nil
ShouldThrottle_Match(p) ==
    /\ proc[p].pc = "should_match"
    /\ LET f == proc[p]
           o == throttles[f.ti]
       IN IF f.req \in o.f
          THEN Goto(p, [f EXCEPT !.pc = IF o.storage = "memory"
                                        THEN "count_rlock" ELSE "mock_count",
                                 !.k = o.prefix, !.arg = o.duration,
                                 !.trace = Append(@, <<"EventsInDuration", f.ti>>)])
          ELSE Goto(p, [f EXCEPT !.pc = IF f.top = "ServeHTTP"
                                        THEN "serve_decide" ELSE "done",
                                 !.yes = FALSE, !.err = "nil",
                                 !.trace = Append(@, <<"no", f.ti>>)])
    /\ UNCHANGED <<now, s, m, throttles, options, appends, cleans, hist>>

\* mutant: the rule compares the count whether or not the store failed
Mut_ShouldThrottle_Return_Err(p) ==
    /\ proc[p].pc = "should_ret"
    /\ LET f == proc[p]
           o == throttles[f.ti]
           yes == f.counter > o.max
       IN Goto(p, [f EXCEPT !.pc = IF f.top = "ServeHTTP"
                                   THEN "serve_decide" ELSE "done",
                            !.yes = yes, !.counter = 0,
                            !.trace = Append(@, <<IF yes THEN "yes" ELSE "no", f.ti>>)])
    /\ UNCHANGED <<now, s, m, throttles, options, appends, cleans, hist>>

\* mutant: a rule that throttles also records the request
Mut_ShouldThrottle_Return_Record(p) ==
    /\ proc[p].pc = "should_ret"
    /\ LET f == proc[p]
           o == throttles[f.ti]
           yes == f.err = "nil" /\ f.counter > o.max
       IN /\ Goto(p, [f EXCEPT !.pc = IF f.top = "ServeHTTP"
                                      THEN "serve_decide" ELSE "done",
                               !.yes = yes, !.counter = 0,
                               !.trace = Append(@, <<IF yes THEN "yes" ELSE "no", f.ti>>)])
          /\ s' = IF yes THEN MapSet(o.prefix, Append(Log(o.prefix), now)) ELSE s
    /\ UNCHANGED <<now, m, throttles, options, appends, cleans, hist>>

\* mutant: the comparison is count >= max
Mut_ShouldThrottle_Return(p) ==
    /\ proc[p].pc = "should_ret"
    /\ LET f == proc[p]
           o == throttles[f.ti]
           yes == f.err = "nil" /\ f.counter >= o.max
       IN Goto(p, [f EXCEPT !.pc = IF f.top = "ServeHTTP"
                                   THEN "serve_decide" ELSE "done",
                            !.yes = yes, !.counter = 0,
                            !.trace = Append(@, <<IF yes THEN "yes" ELSE "no", f.ti>>)])
    /\ UNCHANGED <<now, s, m, throttles, options, appends, cleans, hist>>

\* if err != nil { return false, err }
\* if count > int64(GetMaxCount()) { return true, nil }; return false, nil
ShouldThrottle_Return(p) ==
    /\ proc[p].pc = "should_ret"
    /\ LET f == proc[p]
           o == throttles[f.ti]
           yes == f.err = "nil" /\ f.counter > o.max
       IN Goto(p, [f EXCEPT !.pc = IF f.top = "ServeHTTP"
                                   THEN "serve_decide" ELSE "done",
                            !.yes = yes, !.counter = 0,
                            !.trace = Append(@, <<IF yes THEN "yes" ELSE "no", f.ti>>)])
    /\ UNCHANGED <<now, s, m, throttles, options, appends, cleans, hist>>

\* a caller invokes AppendEvent(r) on rule n of the chain
Call_Throttle_AppendEvent(p, n, r) ==
    /\ proc[p].pc \in {"idle", "done"}
    /\ n \in 1..Len(throttles)
    /\ Load < MaxEvents
    /\ Goto(p, [Idle EXCEPT !.top = "Throttle.AppendEvent", !.pc = "append_now",
                            !.req = r, !.ti = n])
    /\ UNCHANGED <<now, s, m, throttles, options, appends, cleans, hist>>

\* mutant: the rule records only the requests its predicate accepts
Mut_Throttle_AppendEvent_Classify(p) ==
    /\ proc[p].pc = "append_now"
    /\ LET f == proc[p]
       IN IF f.req \in throttles[f.ti].f
          THEN Goto(p, [f EXCEPT !.pc = "append_lock",
                                 !.k = throttles[f.ti].prefix, !.arg = now])
          ELSE IF f.top = "ServeHTTP"
               THEN Goto(p, [f EXCEPT !.pc = "serve_range", !.ti = @ + 1])
               ELSE Goto(p, [Idle EXCEPT !.top = f.top, !.pc = "done"])
    /\ UNCHANGED <<now, s, m, throttles, options, appends, cleans, hist>>

\* mutant: the rule records nothing for a request taken from the chain
Mut_Throttle_AppendEvent(p) ==
    /\ proc[p].pc = "append_now"
    /\ IF proc[p].top = "ServeHTTP"
       THEN Goto(p, [proc[p] EXCEPT !.pc = "serve_range", !.ti = @ + 1])
       ELSE Goto(p, [proc[p] EXCEPT !.pc = "append_lock",
                                    !.k = throttles[proc[p].ti].prefix, !.arg = now])
    /\ UNCHANGED <<now, s, m, throttles, options, appends, cleans, hist>>

\* d.GetOptions().GetStorage().AppendEvent(d.GetOptions().GetPrefix(), time.Now())
\* the arguments, time.Now() among them, are evaluated before the call
Throttle_AppendEvent(p) ==
    /\ proc[p].pc = "append_now"
    /\ Goto(p, [proc[p] EXCEPT !.pc = IF throttles[proc[p].ti].storage = "memory"
                                      THEN "append_lock" ELSE "mock_append",
                               !.k = throttles[proc[p].ti].prefix, !.arg = now])
    /\ UNCHANGED <<now, s, m, throttles, options, appends, cleans, hist>>

\* -------------------------------------------------------- dampenerPolicy
\* the server hands request r to the chain
Call_ServeHTTP(p, r) ==
    /\ proc[p].pc \in {"idle", "done"}
    /\ Len(hist) < MaxRequests
    /\ Load + Len(throttles) <= MaxEvents
    /\ Goto(p, [Idle EXCEPT !.top = "ServeHTTP", !.pc = "serve_range",
                            !.req = r, !.ti = 1, !.t0 = now])
    /\ UNCHANGED <<now, s, m, throttles, options, appends, cleans, hist>>

\* for _, t := range d.throttles { if yes, _ := t.ShouldThrottle(r); ...
ServeHTTP_Range(p) ==
    /\ proc[p].pc = "serve_range"
    /\ proc[p].ti <= Len(throttles)
    /\ Goto(p, [proc[p] EXCEPT !.pc = "should_match",
                               !.trace = Append(@, <<"ShouldThrottle", proc[p].ti>>)])
    /\ UNCHANGED <<now, s, m, throttles, options, appends, cleans, hist>>

\* mutant: the rejecting branch lacks its return and falls through to
\* t.AppendEvent(r)
Mut_ServeHTTP_Decide(p) ==
    /\ proc[p].pc = "serve_decide"
    /\ LET f == proc[p]
       IN IF f.yes
          THEN Goto(p, [f EXCEPT !.pc = "append_now",
                                 !.status = options.StatusCode,
                                 !.body = options.Message,
                                 !.trace = @ \o <<<<"WriteHeader", 0>>, <<"Write", 0>>,
                                                  <<"AppendEvent", f.ti>>>>])
          ELSE Goto(p, [f EXCEPT !.pc = "append_now",
                                 !.trace = Append(@, <<"AppendEvent", f.ti>>)])
    /\ UNCHANGED <<now, s, m, throttles, options, appends, cleans, hist>>

\* mutant: the chain fails closed, rejecting when ShouldThrottle returned an
\* error
Mut_ServeHTTP_Decide_FailClosed(p) ==
    /\ proc[p].pc = "serve_decide"
    /\ LET f == proc[p]
       IN IF f.yes \/ f.err # "nil"
          THEN /\ Goto(p, [f EXCEPT !.pc = "done", !.out = "REJECTED",
                                    !.status = options.StatusCode,
                                    !.body = options.Message,
                                    !.trace = @ \o <<<<"WriteHeader", 0>>, <<"Write", 0>>>>])
               /\ hist' = Append(hist, "REJECTED")
          ELSE /\ Goto(p, [f EXCEPT !.pc = "append_now",
                                    !.trace = Append(@, <<"AppendEvent", f.ti>>)])
               /\ hist' = hist
    /\ UNCHANGED <<now, s, m, throttles, options, appends, cleans>>

\* if yes { w.WriteHeader(GetStatus()); w.Write(GetMessage()); return }
\* t.AppendEvent(r)
\* the error ShouldThrottle returned is dropped
ServeHTTP_Decide(p) ==
    /\ proc[p].pc = "serve_decide"
    /\ LET f == proc[p]
       IN IF f.yes
          THEN /\ Goto(p, [f EXCEPT !.pc = "done", !.out = "REJECTED",
                                    !.status = options.StatusCode,
                                    !.body = options.Message,
                                    !.trace = @ \o <<<<"WriteHeader", 0>>, <<"Write", 0>>>>])
               /\ hist' = Append(hist, "REJECTED")
          ELSE /\ Goto(p, [f EXCEPT !.pc = "append_now",
                                    !.trace = Append(@, <<"AppendEvent", f.ti>>)])
               /\ hist' = hist
    /\ UNCHANGED <<now, s, m, throttles, options, appends, cleans>>

\* mutant: the downstream handler is invoked once the first rule has passed
Mut_ServeHTTP_Next(p) ==
    /\ proc[p].pc = "serve_range"
    /\ proc[p].ti > 1
    /\ Goto(p, [proc[p] EXCEPT !.pc = "done", !.out = "ALLOWED",
                               !.trace = Append(@, <<"next.ServeHTTP", 0>>)])
    /\ hist' = Append(hist, "ALLOWED")
    /\ UNCHANGED <<now, s, m, throttles, options, appends, cleans>>

\* d.next.ServeHTTP(w, r), once the range is exhausted
ServeHTTP_Next(p) ==
    /\ proc[p].pc = "serve_range"
    /\ proc[p].ti > Len(throttles)
    /\ Goto(p, [proc[p] EXCEPT !.pc = "done", !.out = "ALLOWED",
                               !.trace = Append(@, <<"next.ServeHTTP", 0>>)])
    /\ hist' = Append(hist, "ALLOWED")
    /\ UNCHANGED <<now, s, m, throttles, options, appends, cleans>>

\* ------------------------------------------------------- configurations
\* NewThrottleOptions(prefix, count, duration, f, storage) of a one-rule chain;
\* f is the set of requests the predicate accepts, storage is "memory" for
\* the MemoryStorage and "mock" for a MockStorage
RuleOptions ==
    [prefix : {"ip"}, duration : 1..MaxDuration, max : 0..MaxCount,
     f : {Requests, {"GET"}}, storage : {"memory"}]

\* the rules of the longer chains
ChainRuleOptions ==
    [prefix : Keys, duration : {MaxDuration}, max : {0}, f : {{"GET"}},
     storage : {"memory"}]

\* NewThrottler(next, options, throttles...) with one rule
Rules == {<<o>> : o \in RuleOptions}

\* NewThrottler(next, options, throttles...) with several rules
Chains == UNION {[1..n -> ChainRuleOptions] : n \in 2..MaxRules}

\* NewThrottlerOptions(statusCode, message)
ThrottlerOptions ==
    {[StatusCode |-> 429, Message |-> <<1>>],
     [StatusCode |-> 503, Message |-> <<2, 3>>]}

\* NewMemoryStorage: an unlocked mutex and an empty map
NewMemoryStorage ==
    /\ s = << >>
    /\ m = [w |-> FALSE, r |-> 0]

\* ------------------------------------------------------- specifications
\* one caller of the memory store: every log, cutoff and window in the bounds
InitStore ==
    /\ now = 0
    /\ NewMemoryStorage
    /\ throttles = << >>
    /\ options = [StatusCode |-> 429, Message |-> <<1>>]
    /\ proc = [p \in Procs |-> Idle]
    /\ appends = [k \in Keys |-> 0]
    /\ cleans = [k \in Keys |-> FALSE]
    /\ hist = << >>

NextStore ==
    \/ Tick
    \/ \E k \in Keys, t \in Times : Call_AppendEvent(1, k, t)
    \/ \E k \in Keys, d \in Durations : Call_EventsInDuration(1, k, d)
    \/ \E k \in Keys, to \in Times : Call_Clean(1, k, to)
    \/ AppendEvent_Lock(1)
    \/ AppendEvent_Init(1)
    \/ AppendEvent_Read(1)
    \/ AppendEvent_Write(1)
    \/ AppendEvent_Return(1)
    \/ EventsInDuration_RLock(1)
    \/ EventsInDuration_Range(1)
    \/ EventsInDuration_Iter(1)
    \/ EventsInDuration_Return(1)
    \/ Clean_Lock(1)
    \/ Clean_Range(1)
    \/ Clean_Iter(1)
    \/ Clean_Return(1)

SpecStore == InitStore /\ [][NextStore]_vars

\* one goroutine driving a throttler: requests through ServeHTTP and direct
\* calls of a rule's ShouldThrottle and AppendEvent, as the package's test
\* makes them
InitSeq(configs) ==
    /\ throttles \in configs
    /\ now = 0
    /\ NewMemoryStorage
    /\ options \in ThrottlerOptions
    /\ proc = [p \in Procs |-> Idle]
    /\ appends = [k \in Keys |-> 0]
    /\ cleans = [k \in Keys |-> FALSE]
    /\ hist = << >>

NextSeq ==
    \/ Tick
    \/ \E r \in Requests : Call_ServeHTTP(1, r)
    \/ \E n \in 1..MaxRules, r \in Requests : Call_ShouldThrottle(1, n, r)
    \/ \E n \in 1..MaxRules, r \in Requests : Call_Throttle_AppendEvent(1, n, r)
    \/ ServeHTTP_Range(1)
    \/ ServeHTTP_Decide(1)
    \/ ServeHTTP_Next(1)
    \/ ShouldThrottle_Match(1)
    \/ ShouldThrottle_Return(1)
    \/ Throttle_AppendEvent(1)
    \/ AppendEvent_Lock(1)
    \/ AppendEvent_Init(1)
    \/ AppendEvent_Read(1)
    \/ AppendEvent_Write(1)
    \/ AppendEvent_Return(1)
    \/ EventsInDuration_RLock(1)
    \/ EventsInDuration_Range(1)
    \/ EventsInDuration_Iter(1)
    \/ EventsInDuration_Return(1)

\* a throttler with a single rule
InitRule == InitSeq(Rules)

SpecRule == InitRule /\ [][NextSeq]_vars

\* a throttler with a chain of rules
InitChain == InitSeq(Chains)

SpecChain == InitChain /\ [][NextSeq]_vars

\* goroutines appending to the memory store concurrently; the events carry
\* the clock reading of their call, as dampenerThrottle.AppendEvent passes it
NextConc ==
    \/ Tick
    \/ \E p \in Procs, k \in Keys : Call_AppendEvent(p, k, now)
    \/ \E p \in Procs : AppendEvent_Lock(p)
    \/ \E p \in Procs : AppendEvent_Init(p)
    \/ \E p \in Procs : AppendEvent_Read(p)
    \/ \E p \in Procs : AppendEvent_Write(p)
    \/ \E p \in Procs : AppendEvent_Return(p)

SpecConc == InitStore /\ [][NextConc]_vars

\* goroutine 1 reads the memory store while the others append to it
NextVis ==
    \/ Tick
    \/ \E k \in Keys, d \in Durations : Call_EventsInDuration(1, k, d)
    \/ EventsInDuration_RLock(1)
    \/ EventsInDuration_Range(1)
    \/ EventsInDuration_Iter(1)
    \/ EventsInDuration_Return(1)
    \/ \E p \in Procs \ {1}, k \in Keys : Call_AppendEvent(p, k, now)
    \/ \E p \in Procs \ {1} : AppendEvent_Lock(p)
    \/ \E p \in Procs \ {1} : AppendEvent_Init(p)
    \/ \E p \in Procs \ {1} : AppendEvent_Read(p)
    \/ \E p \in Procs \ {1} : AppendEvent_Write(p)
    \/ \E p \in Procs \ {1} : AppendEvent_Return(p)

SpecVis == InitStore /\ [][NextVis]_vars

\* chains whose rules use the memory store or a mock store that may fail
OutageRuleOptions ==
    [prefix : {"ip"}, duration : {MaxDuration}, max : {0}, f : {Requests},
     storage : {"memory", "mock"}]

OutageChains == UNION {[1..n -> OutageRuleOptions] : n \in 1..MaxRules}

InitOutage == InitSeq(OutageChains)

NextOutage ==
    \/ Tick
    \/ \E r \in Requests : Call_ServeHTTP(1, r)
    \/ \E n \in 1..MaxRules, r \in Requests : Call_ShouldThrottle(1, n, r)
    \/ ServeHTTP_Range(1)
    \/ ServeHTTP_Decide(1)
    \/ ServeHTTP_Next(1)
    \/ ShouldThrottle_Match(1)
    \/ ShouldThrottle_Return(1)
    \/ Throttle_AppendEvent(1)
    \/ MockStorage_EventsInDuration(1)
    \/ MockStorage_AppendEvent(1)
    \/ AppendEvent_Lock(1)
    \/ AppendEvent_Init(1)
    \/ AppendEvent_Read(1)
    \/ AppendEvent_Write(1)
    \/ AppendEvent_Return(1)
    \/ EventsInDuration_RLock(1)
    \/ EventsInDuration_Range(1)
    \/ EventsInDuration_Iter(1)
    \/ EventsInDuration_Return(1)

SpecOutage == InitOutage /\ [][NextOutage]_vars

\* several goroutines serving requests through one single-rule throttler
\* whose predicate accepts every request
RaceRuleOptions ==
    [prefix : {"ip"}, duration : {MaxDuration}, max : 0..MaxCount, f : {Requests},
     storage : {"memory"}]

RaceRules == {<<o>> : o \in RaceRuleOptions}

InitRace == InitSeq(RaceRules)

NextRace ==
    \/ Tick
    \/ \E p \in Procs : Call_ServeHTTP(p, "GET")
    \/ \E p \in Procs : ServeHTTP_Range(p)
    \/ \E p \in Procs : ServeHTTP_Decide(p)
    \/ \E p \in Procs : ServeHTTP_Next(p)
    \/ \E p \in Procs : ShouldThrottle_Match(p)
    \/ \E p \in Procs : ShouldThrottle_Return(p)
    \/ \E p \in Procs : Throttle_AppendEvent(p)
    \/ \E p \in Procs : AppendEvent_Lock(p)
    \/ \E p \in Procs : AppendEvent_Init(p)
    \/ \E p \in Procs : AppendEvent_Read(p)
    \/ \E p \in Procs : AppendEvent_Write(p)
    \/ \E p \in Procs : AppendEvent_Return(p)
    \/ \E p \in Procs : EventsInDuration_RLock(p)
    \/ \E p \in Procs : EventsInDuration_Range(p)
    \/ \E p \in Procs : EventsInDuration_Iter(p)
    \/ \E p \in Procs : EventsInDuration_Return(p)

SpecRace == InitRace /\ [][NextRace]_vars

\* a single-rule throttler at work: goroutine 1 serves requests one after
\* the other while the rule's cleanup goroutine runs
CleanerRuleOptions ==
    [prefix : {"ip"}, duration : {MaxDuration}, max : {0}, f : {{"GET"}},
     storage : {"memory"}]

CleanerRules == {<<o>> : o \in CleanerRuleOptions}

InitCleaner ==
    /\ throttles \in CleanerRules
    /\ now = 0
    /\ NewMemoryStorage
    /\ options \in ThrottlerOptions
    /\ proc = [p \in Procs |-> IF p = NumProcs THEN Cleaner(1) ELSE Idle]
    /\ appends = [k \in Keys |-> 0]
    /\ cleans = [k \in Keys |-> FALSE]
    /\ hist = << >>

\* the steps goroutine p can take inside a call
StepCleaner(p) ==
    \/ ServeHTTP_Range(p)
    \/ ServeHTTP_Decide(p)
    \/ ServeHTTP_Next(p)
    \/ ShouldThrottle_Match(p)
    \/ ShouldThrottle_Return(p)
    \/ Throttle_AppendEvent(p)
    \/ AppendEvent_Lock(p)
    \/ AppendEvent_Init(p)
    \/ AppendEvent_Read(p)
    \/ AppendEvent_Write(p)
    \/ AppendEvent_Return(p)
    \/ EventsInDuration_RLock(p)
    \/ EventsInDuration_Range(p)
    \/ EventsInDuration_Iter(p)
    \/ EventsInDuration_Return(p)
    \/ Cleaner_Wake(p)
    \/ Clean_Lock(p)
    \/ Clean_Range(p)
    \/ Clean_Iter(p)
    \/ Clean_Return(p)

NextCleaner ==
    \/ Tick
    \/ \E r \in Requests : Call_ServeHTTP(1, r)
    \/ \E p \in Procs : StepCleaner(p)

\* the Go scheduler lets every goroutine that can run do so
SpecCleaner ==
    InitCleaner /\ [][NextCleaner]_vars /\ \A p \in Procs : WF_vars(StepCleaner(p))

\* ---------------------------------------------------------------- claims
\* what the claims speak of
Range(sq) == {sq[j] : j \in 1..Len(sq)}

\* the entries of log L strictly after instant u
EntriesAfter(L, u) == {j \in 1..Len(L) : L[j] > u}

\* every entry of log L is strictly inside the window of length d that ends now
InWindow(L, d) == \A j \in 1..Len(L) : L[j] > now - d

\* s.s[k] in the next state
LogNext(k) == IF k \in DOMAIN s' THEN s'[k] ELSE <<>>

\* the requests of hist that were allowed
NumAllowed == Cardinality({j \in 1..Len(hist) : hist[j] = "ALLOWED"})

\* the throttler has one rule, whose predicate accepts every request
OneRuleForAll == Len(throttles) = 1 /\ throttles[1].f = Requests

\* every event of key k was recorded by a request the chain allowed: no
\* direct AppendEvent call has been made
OnlyRequests(k) == appends[k] <= NumAllowed

\* the calls ServeHTTP itself makes, out of a trace
ChainCalls(tr) ==
    SelectSeq(tr, LAMBDA e : e[1] \in {"ShouldThrottle", "AppendEvent", "WriteHeader",
                                        "Write", "next.ServeHTTP"})

\* ShouldThrottle then AppendEvent for rules 1..n, in order
RECURSIVE PassedRules(_)
PassedRules(n) ==
    IF n = 0 THEN <<>>
    ELSE PassedRules(n - 1) \o <<<<"ShouldThrottle", n>>, <<"AppendEvent", n>>>>

IsPrefix(a, b) == Len(a) <= Len(b) /\ SubSeq(b, 1, Len(a)) = a

\* C1: for a rule whose predicate accepts every request, with threshold N and
\* window D: when a direct ShouldThrottle call has returned and the rule's
\* key holds exactly N events, all of them less than D old, the result is
\* (false, nil); when it holds exactly N+1 such events, the result is
\* (true, nil).
C1_ThresholdAtRule ==
    \A p \in Procs :
        LET f == proc[p]
            o == throttles[f.ti]
            L == Log(o.prefix)
        IN (f.top = "ShouldThrottle" /\ f.pc = "done" /\ o.f = Requests
                /\ InWindow(L, o.duration))
            => /\ f.err = "nil"
               /\ Len(L) = o.max => ~f.yes
               /\ Len(L) = o.max + 1 => f.yes

\* C1 witness: N+1 events recorded by direct AppendEvent calls, N >= 1, all
\* inside the window, and ShouldThrottle has returned true
C1_Witness ==
    \E p \in Procs :
        LET f == proc[p]
            o == throttles[f.ti]
        IN /\ f.top = "ShouldThrottle" /\ f.pc = "done" /\ o.f = Requests
           /\ hist = <<>>
           /\ o.max >= 1 /\ Len(Log(o.prefix)) = o.max + 1
           /\ InWindow(Log(o.prefix), o.duration)
           /\ f.yes

\* C2 as claimed: through a one-rule chain whose predicate accepts every
\* request, from an empty store, with nothing but requests and all of it
\* inside one window, requests 1..N are allowed and recorded and request
\* N+1 is rejected with the configured status and body.
C2_RequestNPlus1Rejected ==
    \A p \in Procs :
        LET f == proc[p]
            o == throttles[1]
            L == Log(o.prefix)
            n == Len(hist)
        IN (f.top = "ServeHTTP" /\ f.pc = "done" /\ OneRuleForAll
                /\ OnlyRequests(o.prefix) /\ InWindow(L, o.duration))
            => /\ n <= o.max => (f.out = "ALLOWED" /\ Len(L) = n)
               /\ n = o.max + 1 =>
                    (f.out = "REJECTED" /\ f.status = options.StatusCode
                        /\ f.body = options.Message)

\* C2, amended: under the same conditions requests 1..N+1 are allowed
\* (downstream invoked, nothing written by the chain) and each is recorded,
\* and request N+2 is rejected with the configured status and body, is not
\* recorded and does not reach the downstream handler.
C2_RequestNPlus2Rejected ==
    \A p \in Procs :
        LET f == proc[p]
            o == throttles[1]
            L == Log(o.prefix)
            n == Len(hist)
        IN (f.top = "ServeHTTP" /\ f.pc = "done" /\ OneRuleForAll
                /\ OnlyRequests(o.prefix) /\ InWindow(L, o.duration))
            => /\ n <= o.max + 1 =>
                    /\ f.out = "ALLOWED" /\ Len(L) = n
                    /\ f.status = 0 /\ f.body = <<>>
                    /\ <<"next.ServeHTTP", 0>> \in Range(f.trace)
               /\ n = o.max + 2 =>
                    /\ f.out = "REJECTED" /\ Len(L) = o.max + 1
                    /\ f.status = options.StatusCode /\ f.body = options.Message
                    /\ <<"next.ServeHTTP", 0>> \notin Range(f.trace)

\* C2 witness: request N+2 of one window, N >= 1, has been rejected
C2_Witness ==
    \E p \in Procs :
        /\ proc[p].top = "ServeHTTP" /\ proc[p].pc = "done" /\ OneRuleForAll
        /\ OnlyRequests(throttles[1].prefix)
        /\ InWindow(Log(throttles[1].prefix), throttles[1].duration)
        /\ throttles[1].max >= 1
        /\ Len(hist) = throttles[1].max + 2
        /\ proc[p].out = "REJECTED"

\* C3: with nothing but requests through a one-rule chain whose predicate
\* accepts every request: when the first N+1 requests and at least one more
\* have been sent, every request after the first N+1 was rejected, and the
\* next request is sent more than D after the first recorded request, that
\* request is allowed and handed to the downstream handler.
C3_RecoversAfterWindow ==
    \A p \in Procs :
        LET f == proc[p]
            o == throttles[1]
            L == Log(o.prefix)
            n == Len(hist)
        IN (f.top = "ServeHTTP" /\ f.pc = "done" /\ OneRuleForAll
                /\ OnlyRequests(o.prefix)
                /\ n >= o.max + 3
                /\ (\A j \in 1..(o.max + 1) : hist[j] = "ALLOWED")
                /\ (\A j \in (o.max + 2)..(n - 1) : hist[j] = "REJECTED")
                /\ f.t0 - L[1] > o.duration)
            => /\ f.out = "ALLOWED"
               /\ f.trace[Len(f.trace)] = <<"next.ServeHTTP", 0>>
               /\ f.status = 0

\* C3 witness: N >= 1, a request of the first window was rejected, and the
\* request sent after the window of the first request has been allowed
C3_Witness ==
    \E p \in Procs :
        LET f == proc[p]
            o == throttles[1]
        IN /\ f.top = "ServeHTTP" /\ f.pc = "done" /\ OneRuleForAll
           /\ OnlyRequests(o.prefix)
           /\ o.max >= 1
           /\ Len(hist) = o.max + 3
           /\ hist[o.max + 2] = "REJECTED"
           /\ f.t0 - Log(o.prefix)[1] > o.duration
           /\ f.out = "ALLOWED"

\* C4: once rule i's ShouldThrottle has returned true to ServeHTTP, the only
\* calls this evaluation makes are WriteHeader and Write with the configured
\* status and body: rule i's AppendEvent is not called, no rule after i has
\* ShouldThrottle or AppendEvent called, the downstream handler is not
\* invoked, and the evaluation ends REJECTED.
C4_ShortCircuit ==
    \A p \in Procs :
        LET f == proc[p]
            calls == ChainCalls(f.trace)
        IN f.top = "ServeHTTP" =>
            \A n \in 1..Len(f.trace), i \in 1..Len(throttles) :
                f.trace[n] = <<"yes", i>> =>
                    /\ \/ /\ f.pc = "serve_decide"
                          /\ calls = PassedRules(i - 1) \o <<<<"ShouldThrottle", i>>>>
                       \/ /\ f.pc = "done" /\ f.out = "REJECTED"
                          /\ calls = PassedRules(i - 1)
                                \o <<<<"ShouldThrottle", i>>, <<"WriteHeader", 0>>,
                                     <<"Write", 0>>>>
                          /\ f.status = options.StatusCode
                          /\ f.body = options.Message
                    /\ \A j \in i..Len(throttles) :
                            <<"AppendEvent", j>> \notin Range(f.trace)
                    /\ \A j \in (i + 1)..Len(throttles) :
                            <<"ShouldThrottle", j>> \notin Range(f.trace)
                    /\ <<"next.ServeHTTP", 0>> \notin Range(f.trace)

\* C4 witness: a rule that is not the last one has rejected a request
C4_Witness ==
    \E p \in Procs, i \in 1..(Len(throttles) - 1) :
        /\ proc[p].top = "ServeHTTP" /\ proc[p].pc = "done"
        /\ <<"yes", i>> \in Range(proc[p].trace)
        /\ proc[p].out = "REJECTED"

\* C5: while no rule's ShouldThrottle has returned true, the calls ServeHTTP
\* makes are ShouldThrottle then AppendEvent for rule 1, rule 2, ... in list
\* order, each once, and then the downstream handler once; it writes no
\* status and no body.  An evaluation ends ALLOWED (downstream invoked,
\* nothing written) or REJECTED (something written, downstream not invoked),
\* and REJECTED exactly when a rule returned true.
C5_AllowedPath ==
    \A p \in Procs :
        LET f == proc[p]
            calls == ChainCalls(f.trace)
            n == Len(throttles)
            rejecting == \E i \in 1..n : <<"yes", i>> \in Range(f.trace)
            full == PassedRules(n) \o <<<<"next.ServeHTTP", 0>>>>
        IN f.top = "ServeHTTP" =>
            /\ ~rejecting =>
                    /\ IsPrefix(calls, full)
                    /\ f.status = 0 /\ f.body = <<>>
                    /\ f.pc = "done" => (calls = full /\ f.out = "ALLOWED")
            /\ f.pc = "done" =>
                    /\ f.out \in {"ALLOWED", "REJECTED"}
                    /\ f.out = "REJECTED" <=> rejecting
                    /\ f.out = "ALLOWED" <=> <<"next.ServeHTTP", 0>> \in Range(f.trace)
                    /\ f.out = "REJECTED" <=> f.status # 0

\* C5 witness: a request its rules classify has passed every rule of a chain
\* and reached the downstream handler
C5_Witness ==
    \E p \in Procs :
        /\ proc[p].top = "ServeHTTP" /\ proc[p].pc = "done"
        /\ Len(throttles) >= 2
        /\ proc[p].req = "GET"
        /\ proc[p].out = "ALLOWED"

\* C6: when ShouldThrottle has returned for a request the rule's predicate
\* does not accept, the result is (false, nil) and the call has not queried
\* the store, however many events the rule's key holds.
C6_UnclassifiedNeverThrottled ==
    \A p \in Procs :
        LET f == proc[p]
        IN (/\ \/ f.top = "ShouldThrottle" /\ f.pc = "done"
               \/ f.top = "ServeHTTP" /\ f.pc = "serve_decide"
            /\ f.req \notin throttles[f.ti].f)
            => /\ ~f.yes
               /\ f.err = "nil"
               /\ <<"EventsInDuration", f.ti>> \notin Range(f.trace)

\* C6 witness: the key holds more events than the threshold, all inside the
\* window, and ShouldThrottle has returned false for an unclassified request
C6_Witness ==
    \E p \in Procs :
        LET f == proc[p]
            o == throttles[f.ti]
        IN /\ f.top = "ShouldThrottle" /\ f.pc = "done"
           /\ f.req \notin o.f
           /\ Len(Log(o.prefix)) > o.max + 1
           /\ InWindow(Log(o.prefix), o.duration)
           /\ ~f.yes

\* C7: when EventsInDuration(k, d) returns, the error is nil and there is one
\* instant `at` of the call (between its start and its return) such that the
\* count is the number of entries of k's log strictly after at - d.
C7_CountsAtOneInstant ==
    \A p \in Procs :
        (proc[p].top = "EventsInDuration" /\ proc[p].pc = "count_ret")
            => /\ proc[p].err = "nil"
               /\ \E at \in proc[p].t0..now :
                    proc[p].counter
                        = Cardinality(EntriesAfter(proc[p].rng, at - proc[p].arg))

\* C8: when Clean(k, cutoff) returns nil, k's log is exactly the entries of the
\* prior log at or after cutoff, in their order.
C8_CleanKeepsExactlyFromCutoff ==
    \A p \in Procs :
        (proc[p].top = "Clean" /\ proc[p].pc = "clean_ret" /\ proc[p].err = "nil")
            => Log(proc[p].k)
                 = SelectSeq(proc[p].rng, LAMBDA v : v >= proc[p].arg)

\* C9: a step changes the log of key k (or creates it) only when it is a step
\* of an AppendEvent or Clean call made for k; the other logs are unchanged.
\* Every entry of k's log was in it before the step or is the timestamp of an
\* AppendEvent call made for k.
C9_KeyIsolation ==
    [][\A k \in Keys :
          LET Writers == {p \in Procs :
                            /\ proc[p].k = k
                            /\ proc[p].pc \in {"append_init", "append_write", "clean_iter"}}
          IN /\ (LogNext(k) # Log(k) \/ (k \in DOMAIN s') # (k \in DOMAIN s))
                    => Writers # {}
             /\ \A j \in 1..Len(LogNext(k)) :
                    \/ LogNext(k)[j] \in Range(Log(k))
                    \/ \E p \in Writers : /\ proc[p].pc = "append_write"
                                          /\ proc[p].arg = LogNext(k)[j]
      ]_vars

\* C9 witness: a Clean call has cut entries off one key's log
C9_Witness ==
    \E p \in Procs :
        /\ proc[p].top = "Clean" /\ proc[p].pc = "clean_ret"
        /\ Len(Log(proc[p].k)) < Len(proc[p].rng)

\* C10: as long as no Clean has run on key k, k's log holds one entry for
\* every AppendEvent(k, _) call that has written, whatever the interleaving:
\* its length is the number of calls that returned nil plus the calls that
\* have written and not yet returned; and no step removes or reorders entries.
C10_NoLostWrites ==
    /\ [](\A k \in Keys :
            ~cleans[k] =>
                Len(Log(k)) = appends[k]
                    + Cardinality({p \in Procs : proc[p].k = k /\ proc[p].pc = "append_ret"}))
    /\ [][\A k \in Keys :
            /\ Len(LogNext(k)) <= Len(Log(k)) + 1
            /\ Len(LogNext(k)) >= Len(Log(k))
            /\ SubSeq(LogNext(k), 1, Len(Log(k))) = Log(k)]_vars

\* C10 witness: two AppendEvent calls for one key overlap, one has written,
\* and the log holds both the earlier entry and the new one
C10_Witness ==
    \E p \in Procs, q \in Procs :
        /\ p # q
        /\ proc[p].pc = "append_ret" /\ proc[q].pc = "append_lock"
        /\ proc[p].k = proc[q].k
        /\ appends[proc[p].k] >= 1
        /\ Len(Log(proc[p].k)) = appends[proc[p].k] + 1

\* C11: when EventsInDuration(k, d) is about to return and no Clean has run
\* on k, the log it ranged over holds an entry for every AppendEvent(k, _)
\* call that had returned before the read took the lock (hence for every
\* call that returned before the read began), and every such entry that is
\* still inside the window when the read returns has been counted.
C11_ReadAfterWrite ==
    \A p \in Procs :
        LET f == proc[p]
        IN (f.top = "EventsInDuration" /\ f.pc = "count_ret" /\ ~cleans[f.k])
            => /\ Len(f.rng) >= appends[f.k]
               /\ f.rng = Log(f.k)
               /\ f.counter >= Cardinality(EntriesAfter(f.rng, now - f.arg))

\* C11 witness: a read that began after an append had returned, and that
\* overlaps another append still waiting for the lock, has counted the first
C11_Witness ==
    \E p \in Procs, q \in Procs :
        /\ proc[p].top = "EventsInDuration" /\ proc[p].pc = "count_ret"
        /\ proc[q].pc = "append_lock" /\ proc[q].k = proc[p].k
        /\ appends[proc[p].k] >= 1
        /\ proc[p].t0 >= Log(proc[p].k)[1]
        /\ proc[p].counter >= 1

\* the rules of the chain whose prefix is k
RulesOn(k) == {i \in 1..Len(throttles) : throttles[i].prefix = k}

\* C12: a rule's AppendEvent(r) appends exactly one event, stamped with the
\* clock reading of the call, to the log of the rule's prefix, whether or not
\* the rule's predicate accepts r; so every request the chain has allowed has
\* been recorded once under every rule, and AppendEvent was called once per
\* rule for it, the requests no predicate accepts included.
C12_RecordsUnclassified ==
    /\ \A p \in Procs :
        LET f == proc[p]
        IN /\ (f.pc = "append_ret" /\ f.top \in {"ServeHTTP", "Throttle.AppendEvent"})
                => /\ f.k = throttles[f.ti].prefix
                   /\ Len(Log(f.k)) = appends[f.k] + 1
                   /\ Log(f.k)[Len(Log(f.k))] = f.arg
                   /\ f.arg <= now
           /\ (f.top = "ServeHTTP" /\ f.pc = "done" /\ f.out = "ALLOWED")
                => \A i \in 1..Len(throttles) :
                     Cardinality({n \in 1..Len(f.trace) :
                                     f.trace[n] = <<"AppendEvent", i>>}) = 1
    /\ \A k \in Keys : appends[k] >= NumAllowed * Cardinality(RulesOn(k))

\* C12 witness: a request that no rule of a chain classifies has been allowed
\* and every rule's key holds an event
C12_Witness ==
    \E p \in Procs :
        /\ proc[p].top = "ServeHTTP" /\ proc[p].pc = "done"
        /\ proc[p].out = "ALLOWED"
        /\ Len(throttles) >= 2
        /\ \A i \in 1..Len(throttles) :
                /\ proc[p].req \notin throttles[i].f
                /\ Len(Log(throttles[i].prefix)) >= 1

\* the rules whose ShouldThrottle has returned an error in trace tr
Errored(tr) == {i \in 1..Len(throttles) : <<"error", i>> \in Range(tr)}

\* C13: when the store's EventsInDuration has returned an error to a rule
\* whose predicate accepts the request, ShouldThrottle returns false together
\* with that error, whatever count came with it; it has called the store once
\* and made no other call; and no step of ShouldThrottle changes a log.
C13_ErrorMeansNotThrottled ==
    /\ [](\A p \in Procs :
            LET f == proc[p]
            IN /\ (f.top = "ShouldThrottle" /\ f.pc = "done" /\ f.ti \in Errored(f.trace))
                    => /\ ~f.yes /\ f.err = "outage"
                       /\ f.req \in throttles[f.ti].f
                       /\ f.trace = <<<<"EventsInDuration", f.ti>>, <<"error", f.ti>>,
                                      <<"no", f.ti>>>>
               /\ (f.top = "ServeHTTP" /\ f.pc = "serve_decide" /\ f.ti \in Errored(f.trace))
                    => /\ ~f.yes /\ f.err = "outage"
                       /\ Cardinality({n \in 1..Len(f.trace) :
                                f.trace[n] = <<"EventsInDuration", f.ti>>}) = 1)
    /\ [][\A p \in Procs :
            (proc[p].pc \in {"should_match", "mock_count", "should_ret"}
                /\ proc'[p] # proc[p])
                => (s' = s /\ appends' = appends)]_vars

\* C13 witness: a direct ShouldThrottle call on a rule whose store failed has
\* returned, while the memory store holds events
C13_Witness ==
    \E p \in Procs :
        /\ proc[p].top = "ShouldThrottle" /\ proc[p].pc = "done"
        /\ proc[p].err = "outage"
        /\ ~proc[p].yes
        /\ Len(Log(throttles[proc[p].ti].prefix)) >= 1

\* C14: a rule whose ShouldThrottle returned an error to ServeHTTP is treated
\* as not throttling: it does not reject, its AppendEvent is called, and the
\* chain goes on in list order; an evaluation in which no rule returned true
\* ends ALLOWED with the downstream handler invoked, in particular when every
\* rule's store failed.
C14_FailOpen ==
    \A p \in Procs :
        LET f == proc[p]
            n == Len(throttles)
            calls == ChainCalls(f.trace)
            rejecting == \E i \in 1..n : <<"yes", i>> \in Range(f.trace)
            full == PassedRules(n) \o <<<<"next.ServeHTTP", 0>>>>
        IN f.top = "ServeHTTP" =>
            /\ \A i \in Errored(f.trace) :
                    /\ <<"yes", i>> \notin Range(f.trace)
                    /\ f.ti > i => <<"AppendEvent", i>> \in Range(f.trace)
                    /\ (f.pc = "done" /\ f.out = "REJECTED") => f.ti > i
            /\ ~rejecting => IsPrefix(calls, full)
            /\ (f.pc = "done" /\ ~rejecting) => (calls = full /\ f.out = "ALLOWED")
            /\ (f.pc = "done" /\ Errored(f.trace) = 1..n) => f.out = "ALLOWED"

\* C14 witness: the store of every rule of a chain of several rules failed
\* for a request, not the first one served, and the request was allowed
C14_Witness ==
    \E p \in Procs :
        /\ proc[p].top = "ServeHTTP" /\ proc[p].pc = "done"
        /\ Len(throttles) >= 2
        /\ Errored(proc[p].trace) = 1..Len(throttles)
        /\ Len(hist) >= 2
        /\ proc[p].out = "ALLOWED"

\* C15: every key's log is in non-decreasing timestamp order, in every
\* reachable state, when the logs are populated by the rule's AppendEvent
\* from several goroutines.
C15_LogsSorted ==
    \A k \in Keys :
        \A j \in 1..(Len(Log(k)) - 1) : Log(k)[j] <= Log(k)[j + 1]

\* C18: through a one-rule chain with threshold N whose predicate accepts
\* every request, served by several goroutines: as long as every recorded
\* event is inside one window, at most N+1 requests have been handed to the
\* downstream handler.
C18_BoundedAdmission ==
    LET o == throttles[1]
    IN (OneRuleForAll /\ InWindow(Log(o.prefix), o.duration))
        => NumAllowed <= o.max + 1

\* C16: with the rule's cleanup goroutine running next to the requests, every
\* ServeHTTP evaluation that has begun eventually ends REJECTED or ALLOWED.
C16_RequestsAlwaysFinish ==
    \A p \in Procs :
        (proc[p].top = "ServeHTTP" /\ proc[p].pc # "done")
            ~> (proc[p].top = "ServeHTTP" /\ proc[p].pc = "done"
                    /\ proc[p].out \in {"REJECTED", "ALLOWED"})

\* C17: when Clean(k, cutoff) is about to return it returns nil, whatever the
\* log and the cutoff; and when the first entry of the log is at or after the
\* cutoff, the log is the one Clean found.
C17_CleanCompletesNormally ==
    \A p \in Procs :
        LET f == proc[p]
        IN (f.top = "Clean" /\ f.pc = "clean_ret")
            => /\ f.err = "nil"
               /\ (Len(f.rng) >= 1 /\ f.rng[1] >= f.arg) => Log(f.k) = f.rng

\* C19: a step of the cleanup goroutine's Clean(prefix, now) leaves the number
\* of events of the rule's key inside the rule's window, which is what
\* EventsInDuration(prefix, window) would return at that instant, unchanged.
C19_CleanupKeepsWindow ==
    [][\A p \in Procs :
          LET f == proc[p]
              d == throttles[f.ti].duration
          IN (f.top = "cleaner" /\ f.pc = "clean_iter")
              => Cardinality(EntriesAfter(LogNext(f.k), now - d))
                    = Cardinality(EntriesAfter(Log(f.k), now - d))
      ]_vars

\* the number of times event e occurs in trace tr
Occurrences(tr, e) == Cardinality({n \in 1..Len(tr) : tr[n] = e})

\* C20: once rule i has returned true to ServeHTTP, AppendEvent has been
\* called exactly once for each of the rules before i and not at all for rule
\* i and the rules after it; each of those calls appended exactly one event
\* to its rule's log and changed no other log; and no step outside a store
\* AppendEvent, in particular none of ShouldThrottle and EventsInDuration,
\* changes any log.
C20_RejectedRequestEffect ==
    /\ [](\A p \in Procs :
            LET f == proc[p]
            IN f.top = "ServeHTTP" =>
                \A i \in 1..Len(throttles) :
                    <<"yes", i>> \in Range(f.trace) =>
                        /\ f.ti = i /\ f.pc \in {"serve_decide", "done"}
                        /\ \A j \in 1..Len(throttles) :
                             Occurrences(f.trace, <<"AppendEvent", j>>)
                                = IF j < i THEN 1 ELSE 0)
    /\ [][\A p \in Procs :
            LET f == proc[p]
                moved == proc'[p] # f
            IN /\ (moved /\ f.pc \notin {"append_init", "append_write"})
                    => s' = s
               /\ (moved /\ f.pc \notin {"append_ret"}) => appends' = appends
               /\ (moved /\ f.top = "ServeHTTP" /\ f.pc = "append_write")
                    => /\ f.k = throttles[f.ti].prefix
                       /\ LogNext(f.k) = Append(Log(f.k), f.arg)
                       /\ \A k \in Keys \ {f.k} : LogNext(k) = Log(k)
                       /\ Occurrences(f.trace, <<"AppendEvent", f.ti>>) = 1
                       /\ \A i \in 1..Len(throttles) : <<"yes", i>> \notin Range(f.trace)
      ]_vars

\* C20 witness: the second rule of a chain has rejected a request that the
\* first rule had let pass and recorded
C20_Witness ==
    \E p \in Procs :
        LET f == proc[p]
        IN /\ f.top = "ServeHTTP" /\ f.pc = "done" /\ f.out = "REJECTED"
           /\ <<"yes", 2>> \in Range(f.trace)
           /\ Occurrences(f.trace, <<"AppendEvent", 1>>) = 1
           /\ Len(Log(throttles[1].prefix)) >= 1
           /\ Len(Log(throttles[2].prefix)) >= 1

====
